---- MODULE Spec2Model ----
(***************************************************************************)
(* Model of src/convert_to_usfm.py: the alignment-to-USFM compiler         *)
(* (process_aligned_verse) and the document assembler                      *)
(* (convert_json_to_usfm).                                                 *)
(*                                                                         *)
(* Spec    steps through process_aligned_verse one statement at a time,    *)
(*         for every bounded word sequence.                                *)
(* SpecDoc steps through convert_json_to_usfm one loop iteration at a      *)
(*         time, for every bounded pair of primary / secondary documents.  *)
(*                                                                         *)
(* SpecMap steps through load_greek_mapping of                              *)
(*         src/convert_to_usfm_with_ugnt.py one CSV row at a time, and     *)
(* SpecGen through generate_usfm of the same file one verse at a time.     *)
(*                                                                         *)
(* Python strings are TLA+ strings; Python lists are sequences; Python     *)
(* 0-based indices are kept as they are, so list[i] is written seq[i + 1]. *)
(***************************************************************************)
EXTENDS Integers, Sequences, FiniteSets, TLC

(***************************************************************************)
(* Bounds of the model.                                                    *)
(***************************************************************************)
MaxWords == 3
MaxTokens == 2
MaxChapters == 2
MaxVerses == 4

VARIABLES
    greek_words,   \* process_aligned_verse: the verse's word list (parameter)
    verse_num,     \* process_aligned_verse: the verse number (parameter)
    result,        \* the list of emitted pieces
    emitted_for,   \* for each piece of result, the 0-based index of the word it was emitted for (-1: verse marker)
    i,             \* cursor of the outer while loop
    k,             \* index of the inner for loops over word_data['greekWords']
    next_idx,      \* cursor of the continuation scan
    pc,            \* position inside process_aligned_verse
    verse_text     \* the returned string

verse_vars == <<greek_words, verse_num, result, emitted_for, i, k, next_idx, pc, verse_text>>

VARIABLES
    greek_data,      \* convert_json_to_usfm: the primary collection, greek_data['chapters']
    english_data,    \* the secondary collection, english_data['chapters']
    current_date,    \* the date string of the header
    usfm_lines,      \* the output lines
    chapter_idx,     \* index of the chapter loop
    verse_idx,       \* index of the verse loop
    english_chapter, \* the secondary chapter matched to the current chapter
    output_file,     \* the text written to output_filepath
    dpc              \* position inside convert_json_to_usfm

doc_vars == <<greek_data, english_data, current_date, usfm_lines, chapter_idx, verse_idx,
              english_chapter, output_file, dpc>>

VARIABLES
    csv_rows,      \* load_greek_mapping: the rows csv.DictReader yields
    row_idx,       \* index of the row loop
    mapping,       \* the dict being built
    map_warning,   \* whether the "No Greek mappings found" warning was printed
    mpc            \* position inside load_greek_mapping

map_vars == <<csv_rows, row_idx, mapping, map_warning, mpc>>

VARIABLES
    data,          \* generate_usfm: data['chapters']
    gen_lines,     \* generate_usfm: usfm_lines
    gen_chapter,   \* index of the chapter loop
    gen_verse,     \* index of the verse loop
    warnings,      \* the (chapter, verse) pairs of the warnings printed
    usfm_content,  \* the returned string
    gpc            \* position inside generate_usfm

gen_vars == <<data, gen_lines, gen_chapter, gen_verse, warnings, usfm_content, gpc>>

ugnt_vars == <<map_vars, gen_vars>>

vars == <<verse_vars, doc_vars, ugnt_vars>>

\* load_greek_mapping has not been called.
MapIdle ==
    /\ csv_rows = <<>>
    /\ row_idx = 0
    /\ mapping = <<>>
    /\ map_warning = FALSE
    /\ mpc = "idle"

\* generate_usfm has not been called.
GenIdle ==
    /\ data = <<>>
    /\ gen_lines = <<>>
    /\ gen_chapter = 0
    /\ gen_verse = 0
    /\ warnings = <<>>
    /\ usfm_content = ""
    /\ gpc = "idle"

(***************************************************************************)
(* Input data.  A source token (an entry of 'greekWords') has the keys the *)
(* code reads with .get(key, ''); an absent key is the empty string.  The  *)
(* usage code is kept as the list of its '-'-separated parts, so that      *)
(* "N-DSF" is <<"N", "DSF">> and a code without hyphen has one part.       *)
(***************************************************************************)
TokenArche ==
    [strongsNumber |-> "G07461", lemma |-> "", grammarType |-> "",
     usageCode |-> <<"">>, word |-> "arche"]

TokenTheos ==
    [strongsNumber |-> "G23160", lemma |-> "theos", grammarType |-> "N",
     usageCode |-> <<"N", "NSM">>, word |-> "theos"]

\* The source tokens a word can carry, in listed order: a word with n source
\* tokens carries the first n of this list, repeated cyclically.
TokenList == <<TokenArche, TokenTheos>>

Tokens == {TokenList[j] : j \in 1..Len(TokenList)}

GreekWordsOfLen(n) == [j \in 1..n |-> TokenList[((j - 1) % Len(TokenList)) + 1]]

\* The surface text of the word at each position of a verse.
WordTexts == <<"In", "the", "beginning", "God", "created", "heaven">>

\* 'greekWords' absent, present and empty, or a list of up to MaxTokens tokens.
GreekWordsChoices ==
    {[hasGreekWords |-> FALSE, greekWords |-> <<>>]}
    \cup {[hasGreekWords |-> TRUE, greekWords |-> GreekWordsOfLen(n)] : n \in 0..MaxTokens}

WordsAt(p) ==
    {[word |-> WordTexts[p], hasGreekWords |-> g.hasGreekWords,
      greekWords |-> g.greekWords, nextWordIsInGroup |-> f] :
        g \in GreekWordsChoices, f \in BOOLEAN}

\* The verse numbers process_aligned_verse is called with.
VerseNums == {1, 2}

RECURSIVE WordListsOfLen(_)
WordListsOfLen(n) ==
    IF n = 0 THEN {<<>>}
    ELSE {Append(s, w) : s \in WordListsOfLen(n - 1), w \in WordsAt(n)}

WordLists == UNION {WordListsOfLen(n) : n \in 0..MaxWords}

(***************************************************************************)
(* The strings process_aligned_verse emits.                                *)
(***************************************************************************)
\* f"\\v {verse_num} "
VerseMarker(n) == "\\v " \o ToString(n) \o " "

\* usageCode.split('-')[-1] if '-' in usageCode else usageCode
UsageSuffix(parts) ==
    IF Len(parts) > 1 THEN parts[Len(parts)] ELSE parts[1]

\* The open-alignment marker of one source token.
AlignTag(greek_word) ==
    "\\zaln-s |x-strong=\"" \o greek_word.strongsNumber \o "\" "
    \o "x-lemma=\"" \o greek_word.lemma \o "\" "
    \o "x-morph=\"Gr," \o greek_word.grammarType \o ",,,,,"
    \o UsageSuffix(greek_word.usageCode) \o ",\" "
    \o "x-occurrence=\"1\" x-occurrences=\"1\" "
    \o "x-content=\"" \o greek_word.word \o "\"\\*"

\* The wrapped-word marker of an English word.
WrappedWord(english_word) ==
    "\\w " \o english_word \o "|x-occurrence=\"1\" x-occurrences=\"1\"\\w*"

\* The close-alignment marker.
CloseTag == "\\zaln-e\\*"

\* f" {next_word}"
Continuation(next_word) == " " \o next_word

\* Mutant of HasAlignment: tests only that the key is present.
HasAlignmentKeyOnly(word_data) ==
    word_data.hasGreekWords

\* 'greekWords' in word_data and word_data['greekWords']
HasAlignment(word_data) ==
    word_data.hasGreekWords /\ Len(word_data.greekWords) > 0

\* "".join(result)
RECURSIVE Join(_)
Join(pieces) ==
    IF pieces = <<>> THEN "" ELSE Head(pieces) \o Join(Tail(pieces))

\* The value of next(..., None) when no secondary chapter matches.
NoChapter == [found |-> FALSE, number |-> 0, verses |-> <<>>]

(***************************************************************************)
(* process_aligned_verse, statement by statement.                          *)
(***************************************************************************)
Emit(piece, word_idx) ==
    /\ result' = Append(result, piece)
    /\ emitted_for' = Append(emitted_for, word_idx)

Init ==
    /\ greek_words \in WordLists
    /\ verse_num \in VerseNums
    /\ result = <<VerseMarker(verse_num)>>
    /\ emitted_for = <<-1>>
    /\ i = 0
    /\ k = 0
    /\ next_idx = 0
    /\ pc = "loop"
    /\ verse_text = ""
    /\ greek_data = <<>>
    /\ english_data = <<>>
    /\ current_date = ""
    /\ usfm_lines = <<>>
    /\ chapter_idx = 0
    /\ verse_idx = 0
    /\ english_chapter = NoChapter
    /\ output_file = ""
    /\ dpc = "idle"
    /\ MapIdle
    /\ GenIdle

\* while i < len(greek_words): ... if 'greekWords' in word_data and word_data['greekWords']:
EnterAlignedWord ==
    /\ pc = "loop"
    /\ i < Len(greek_words)
    /\ HasAlignment(greek_words[i + 1])
    /\ pc' = "open"
    /\ k' = 0
    /\ UNCHANGED <<greek_words, verse_num, result, emitted_for, i, next_idx, verse_text, doc_vars, ugnt_vars>>

\* Mutant of OpenAlignment: leaves the for loop after the first source token.
OpenAlignmentFirstOnly ==
    /\ pc = "open"
    /\ k < Len(greek_words[i + 1].greekWords)
    /\ Emit(AlignTag(greek_words[i + 1].greekWords[k + 1]), i)
    /\ k' = Len(greek_words[i + 1].greekWords)
    /\ UNCHANGED <<greek_words, verse_num, i, next_idx, pc, verse_text, doc_vars, ugnt_vars>>

\* for greek_word in word_data['greekWords']: result.append(align_tag)
OpenAlignment ==
    /\ pc = "open"
    /\ k < Len(greek_words[i + 1].greekWords)
    /\ Emit(AlignTag(greek_words[i + 1].greekWords[k + 1]), i)
    /\ k' = k + 1
    /\ UNCHANGED <<greek_words, verse_num, i, next_idx, pc, verse_text, doc_vars, ugnt_vars>>

\* result.append(f"\\w {english_word}|...\\w*")
WrapWord ==
    /\ pc = "open"
    /\ k = Len(greek_words[i + 1].greekWords)
    /\ Emit(WrappedWord(greek_words[i + 1].word), i)
    /\ k' = 0
    /\ pc' = "close"
    /\ UNCHANGED <<greek_words, verse_num, i, next_idx, verse_text, doc_vars, ugnt_vars>>

\* Mutant of CloseAlignment: emits one close marker whatever the token count.
CloseAlignmentOnce ==
    /\ pc = "close"
    /\ k < Len(greek_words[i + 1].greekWords)
    /\ Emit(CloseTag, i)
    /\ k' = k + 1
    /\ pc' = "group"
    /\ UNCHANGED <<greek_words, verse_num, i, next_idx, verse_text, doc_vars, ugnt_vars>>

\* for _ in range(len(word_data['greekWords'])): result.append("\\zaln-e\\*")
CloseAlignment ==
    /\ pc = "close"
    /\ k < Len(greek_words[i + 1].greekWords)
    /\ Emit(CloseTag, i)
    /\ k' = k + 1
    /\ pc' = IF k + 1 < Len(greek_words[i + 1].greekWords) THEN "close" ELSE "group"
    /\ UNCHANGED <<greek_words, verse_num, i, next_idx, verse_text, doc_vars, ugnt_vars>>

\* else: result.append(english_word)
PlainWord ==
    /\ pc = "loop"
    /\ i < Len(greek_words)
    /\ ~HasAlignment(greek_words[i + 1])
    /\ Emit(greek_words[i + 1].word, i)
    /\ pc' = "group"
    /\ UNCHANGED <<greek_words, verse_num, i, k, next_idx, verse_text, doc_vars, ugnt_vars>>

\* if word_data.get('nextWordIsInGroup', False): next_idx = i + 1
StartGroup ==
    /\ pc = "group"
    /\ greek_words[i + 1].nextWordIsInGroup
    /\ next_idx' = i + 1
    /\ pc' = "scan"
    /\ UNCHANGED <<greek_words, verse_num, result, emitted_for, i, k, verse_text, doc_vars, ugnt_vars>>

\* Mutant of AdvanceOne: the cursor skips the following word.
AdvanceTwo ==
    /\ pc = "group"
    /\ ~greek_words[i + 1].nextWordIsInGroup
    /\ i' = i + 2
    /\ pc' = "loop"
    /\ UNCHANGED <<greek_words, verse_num, result, emitted_for, k, next_idx, verse_text, doc_vars, ugnt_vars>>

\* else: i += 1
AdvanceOne ==
    /\ pc = "group"
    /\ ~greek_words[i + 1].nextWordIsInGroup
    /\ i' = i + 1
    /\ pc' = "loop"
    /\ UNCHANGED <<greek_words, verse_num, result, emitted_for, k, next_idx, verse_text, doc_vars, ugnt_vars>>

\* Mutant of ScanTest: reads the flag of the word at idx instead of the flag
\* of the word before it.
ScanTestOwnFlag(words, idx) ==
    /\ idx < Len(words)
    /\ words[idx + 1].nextWordIsInGroup

\* next_idx < len(greek_words) and greek_words[next_idx-1].get('nextWordIsInGroup', False)
ScanTest(words, idx) ==
    /\ idx < Len(words)
    /\ words[(idx - 1) + 1].nextWordIsInGroup

\* The condition of the inner while loop.
ScanCondition == ScanTest(greek_words, next_idx)

\* result.append(f" {next_word}"); next_idx += 1
ScanGroup ==
    /\ pc = "scan"
    /\ ScanCondition
    /\ Emit(Continuation(greek_words[next_idx + 1].word), next_idx)
    /\ next_idx' = next_idx + 1
    /\ UNCHANGED <<greek_words, verse_num, i, k, pc, verse_text, doc_vars, ugnt_vars>>

\* i = next_idx
EndGroup ==
    /\ pc = "scan"
    /\ ~ScanCondition
    /\ i' = next_idx
    /\ pc' = "loop"
    /\ UNCHANGED <<greek_words, verse_num, result, emitted_for, k, next_idx, verse_text, doc_vars, ugnt_vars>>

\* return "".join(result)
Return ==
    /\ pc = "loop"
    /\ ~(i < Len(greek_words))
    /\ verse_text' = Join(result)
    /\ pc' = "returned"
    /\ UNCHANGED <<greek_words, verse_num, result, emitted_for, i, k, next_idx, doc_vars, ugnt_vars>>

Next ==
    \/ EnterAlignedWord
    \/ OpenAlignment
    \/ WrapWord
    \/ CloseAlignment
    \/ PlainWord
    \/ StartGroup
    \/ AdvanceOne
    \/ ScanGroup
    \/ EndGroup
    \/ Return

Spec == Init /\ [][Next]_vars

\* The function runs on one thread and every statement completes: a step that
\* is possible is eventually taken.
SpecLive == Spec /\ WF_vars(Next)

TypeOK ==
    /\ pc \in {"idle", "loop", "open", "close", "group", "scan", "returned"}
    /\ Len(result) = Len(emitted_for)
    /\ i \in 0..Len(greek_words)

(***************************************************************************)
(* process_aligned_verse as a function of its arguments, as                *)
(* convert_json_to_usfm calls it.                                          *)
(***************************************************************************)
\* The pieces emitted for the word under the cursor (the if / else of the loop body).
WordMarkup(word_data) ==
    IF HasAlignment(word_data)
    THEN [j \in 1..Len(word_data.greekWords) |-> AlignTag(word_data.greekWords[j])]
         \o <<WrappedWord(word_data.word)>>
         \o [j \in 1..Len(word_data.greekWords) |-> CloseTag]
    ELSE <<word_data.word>>

\* The value of next_idx when the inner while loop ends.
RECURSIVE ScanEnd(_, _)
ScanEnd(words, idx) ==
    IF ScanTest(words, idx) THEN ScanEnd(words, idx + 1) ELSE idx

\* The pieces emitted from cursor position c to the end of the word list.
RECURSIVE CompileFrom(_, _)
CompileFrom(words, c) ==
    IF ~(c < Len(words)) THEN <<>>
    ELSE LET word_data == words[c + 1]
         IN IF word_data.nextWordIsInGroup
            THEN LET last == ScanEnd(words, c + 1)
                 IN WordMarkup(word_data)
                    \o [j \in 1..(last - (c + 1)) |-> Continuation(words[c + 1 + j].word)]
                    \o CompileFrom(words, last)
            ELSE WordMarkup(word_data) \o CompileFrom(words, c + 1)

ProcessAlignedVerse(words, n) ==
    Join(<<VerseMarker(n)>> \o CompileFrom(words, 0))

\* The statement-by-statement run returns what the function computes.
StepwiseAgrees ==
    pc = "returned" => verse_text = ProcessAlignedVerse(greek_words, verse_num)

(***************************************************************************)
(* Input documents of convert_json_to_usfm.                                *)
(***************************************************************************)
\* A primary verse: without the 'words' key, with an empty 'words' list, or
\* with aligned words (a continuation pair followed by an aligned word).
VerseNoWords == [hasWords |-> FALSE, words |-> <<>>]

VerseEmptyWords == [hasWords |-> TRUE, words |-> <<>>]

AlignedWords ==
    <<[word |-> "In", hasGreekWords |-> FALSE, greekWords |-> <<>>,
       nextWordIsInGroup |-> TRUE],
      [word |-> "the", hasGreekWords |-> TRUE, greekWords |-> <<>>,
       nextWordIsInGroup |-> FALSE],
      [word |-> "beginning", hasGreekWords |-> TRUE, greekWords |-> <<TokenArche>>,
       nextWordIsInGroup |-> FALSE]>>

VerseAligned == [hasWords |-> TRUE, words |-> AlignedWords]

VerseShapes == {VerseNoWords, VerseEmptyWords, VerseAligned}

\* The sequences over S of length at most n.
RECURSIVE SeqsUpTo(_, _)
SeqsUpTo(S, n) ==
    IF n = 0 THEN {<<>>}
    ELSE LET shorter == SeqsUpTo(S, n - 1)
         IN shorter \cup {Append(t, x) : t \in {u \in shorter : Len(u) = n - 1}, x \in S}

\* The primary collections of n chapters holding at most budget verses in all.
RECURSIVE GreekDocsOf(_, _)
GreekDocsOf(n, budget) ==
    IF n = 0 THEN {<<>>}
    ELSE UNION {{<<chapter>> \o rest : rest \in GreekDocsOf(n - 1, budget - Len(chapter))} :
                    chapter \in SeqsUpTo(VerseShapes, budget)}

GreekDocs == UNION {GreekDocsOf(n, MaxVerses) : n \in 0..MaxChapters}

\* The plain text of the secondary verse numbered n of chapter c.
EnglishText(c, n) == "English " \o ToString(c) \o ":" \o ToString(n)

\* A secondary chapter numbered c whose two verses are numbered from first on
\* (first = 0: the chapter starts with an introduction, verse 0).
EnglishChapter(c, first) ==
    [found |-> TRUE, number |-> c,
     verses |-> <<[number |-> first, text |-> EnglishText(c, first)],
                  [number |-> first + 1, text |-> EnglishText(c, first + 1)]>>]

\* The ascending list of the elements of a set of numbers.
RECURSIVE Ascending(_)
Ascending(S) ==
    IF S = {} THEN <<>>
    ELSE LET least == CHOOSE x \in S : \A y \in S : x <= y
         IN <<least>> \o Ascending(S \ {least})

\* The secondary collections: all chapters 1..MaxChapters but at most one,
\* every chapter numbering its verses from the same first number.
EnglishDocs ==
    {[p \in 1..Len(Ascending((1..MaxChapters) \ missing)) |->
            EnglishChapter(Ascending((1..MaxChapters) \ missing)[p], first)] :
        missing \in {{}} \cup {{c} : c \in 1..MaxChapters}, first \in {0, 1}}

CurrentDates == {"Fri Nov 06 2026 12:00:00 GMT (UTC)"}

(***************************************************************************)
(* The strings and tables of convert_json_to_usfm.                         *)
(***************************************************************************)
generate_usfm_header(date) ==
    <<"\\id ACT EN_BSB en_English_ltr - Berean Study Bible " \o date \o " tc",
      "\\usfm 3.0",
      "\\h Acts",
      "\\toc1 Acts",
      "\\mt1 Acts">>

get_section_header(chapter_num, v) ==
    CASE <<chapter_num, v>> = <<1, 1>> ->
            <<"\\s1 Prologue", "\\r (Luke 1:1-4)", "\\b", "\\m">>
      [] <<chapter_num, v>> = <<1, 6>> ->
            <<"\\s1 The Ascension", "\\r (Mark 16:19-20; Luke 24:50-53)", "\\b", "\\m">>
      [] OTHER -> <<>>

get_footnote(chapter_num, v) ==
    CASE <<chapter_num, v>> = <<1, 4>> ->
            <<"\\f + \\fr 1:4 \\ft Or eating together\\f*">>
      [] <<chapter_num, v>> = <<1, 5>> ->
            <<"\\f + \\fr 1:5 \\ft Or For John baptized in water, but in a few days you will be baptized in the Holy Spirit; cited in Acts 11:16\\f*">>
      [] OTHER -> <<>>

\* f"\\c {chapter_num}"
ChapterMarker(chapter_num) == "\\c " \o ToString(chapter_num)

\* f"\\v {verse_num} {english_verse}"
FallbackLine(n, english_verse) == "\\v " \o ToString(n) \o " " \o english_verse

\* next((ch for ch in english_data['chapters'] if ch['number'] == chapter_num), None)
FindEnglishChapter(chapters, chapter_num) ==
    IF \E p \in 1..Len(chapters) : chapters[p].number = chapter_num
    THEN chapters[CHOOSE p \in 1..Len(chapters) :
                    /\ chapters[p].number = chapter_num
                    /\ \A q \in 1..(p - 1) : chapters[q].number # chapter_num]
    ELSE NoChapter

\* '\n'.join(usfm_lines)
RECURSIVE JoinLines(_)
JoinLines(lines) ==
    IF lines = <<>> THEN ""
    ELSE IF Len(lines) = 1 THEN lines[1]
    ELSE lines[1] \o "\n" \o JoinLines(Tail(lines))

\* The lines of the verse itself: the compiled line, the fallback line, or none.
VerseLines(greek_verse, english, vidx) ==
    IF greek_verse.hasWords
    THEN <<ProcessAlignedVerse(greek_verse.words, vidx + 1)>>
    ELSE IF vidx < Len(english.verses)
    THEN <<FallbackLine(vidx + 1, english.verses[vidx + 1].text)>>
    ELSE <<>>

\* if section_headers or footnotes: two break markers
BreakLines(section_headers, footnotes) ==
    IF section_headers # <<>> \/ footnotes # <<>> THEN <<"\\b", "\\m">> ELSE <<>>

\* Everything one iteration of the verse loop appends.
VerseBlock(chapter_num, greek_verse, english, vidx) ==
    get_section_header(chapter_num, vidx + 1)
    \o VerseLines(greek_verse, english, vidx)
    \o get_footnote(chapter_num, vidx + 1)
    \o BreakLines(get_section_header(chapter_num, vidx + 1),
                  get_footnote(chapter_num, vidx + 1))

(***************************************************************************)
(* convert_json_to_usfm, one loop iteration at a time.                     *)
(***************************************************************************)
InitDoc ==
    /\ greek_data \in GreekDocs
    /\ english_data \in EnglishDocs
    /\ current_date \in CurrentDates
    /\ usfm_lines = <<>>
    /\ chapter_idx = 0
    /\ verse_idx = 0
    /\ english_chapter = NoChapter
    /\ output_file = ""
    /\ dpc = "start"
    /\ greek_words = <<>>
    /\ verse_num = 0
    /\ result = <<>>
    /\ emitted_for = <<>>
    /\ i = 0
    /\ k = 0
    /\ next_idx = 0
    /\ pc = "idle"
    /\ verse_text = ""
    /\ MapIdle
    /\ GenIdle

\* usfm_lines = generate_usfm_header()
StartDocument ==
    /\ dpc = "start"
    /\ usfm_lines' = generate_usfm_header(current_date)
    /\ dpc' = "chapters"
    /\ UNCHANGED <<greek_data, english_data, current_date, chapter_idx, verse_idx,
                   english_chapter, output_file, verse_vars, ugnt_vars>>

\* Mutant of SkipChapter: the chapter marker is written only after the
\* secondary chapter was found.
SkipChapterNoMarker ==
    /\ dpc = "chapters"
    /\ chapter_idx < Len(greek_data)
    /\ ~FindEnglishChapter(english_data, chapter_idx + 1).found
    /\ english_chapter' = NoChapter
    /\ chapter_idx' = chapter_idx + 1
    /\ UNCHANGED <<greek_data, english_data, current_date, usfm_lines, verse_idx,
                   output_file, dpc, verse_vars, ugnt_vars>>

\* The chapter marker, then: if not english_chapter: continue
SkipChapter ==
    /\ dpc = "chapters"
    /\ chapter_idx < Len(greek_data)
    /\ ~FindEnglishChapter(english_data, chapter_idx + 1).found
    /\ usfm_lines' = Append(usfm_lines, ChapterMarker(chapter_idx + 1))
    /\ english_chapter' = NoChapter
    /\ chapter_idx' = chapter_idx + 1
    /\ UNCHANGED <<greek_data, english_data, current_date, verse_idx, output_file, dpc,
                   verse_vars, ugnt_vars>>

\* The chapter marker, then the verse loop of a chapter with a secondary chapter.
EnterChapter ==
    /\ dpc = "chapters"
    /\ chapter_idx < Len(greek_data)
    /\ FindEnglishChapter(english_data, chapter_idx + 1).found
    /\ usfm_lines' = Append(usfm_lines, ChapterMarker(chapter_idx + 1))
    /\ english_chapter' = FindEnglishChapter(english_data, chapter_idx + 1)
    /\ verse_idx' = 0
    /\ dpc' = "verses"
    /\ UNCHANGED <<greek_data, english_data, current_date, chapter_idx, output_file,
                   verse_vars, ugnt_vars>>

\* One iteration of the verse loop.
ProcessVerse ==
    /\ dpc = "verses"
    /\ verse_idx < Len(greek_data[chapter_idx + 1])
    /\ usfm_lines' = usfm_lines \o VerseBlock(chapter_idx + 1,
                                              greek_data[chapter_idx + 1][verse_idx + 1],
                                              english_chapter, verse_idx)
    /\ verse_idx' = verse_idx + 1
    /\ UNCHANGED <<greek_data, english_data, current_date, chapter_idx, english_chapter,
                   output_file, dpc, verse_vars, ugnt_vars>>

\* The verse loop is exhausted: next chapter.
EndChapter ==
    /\ dpc = "verses"
    /\ ~(verse_idx < Len(greek_data[chapter_idx + 1]))
    /\ chapter_idx' = chapter_idx + 1
    /\ dpc' = "chapters"
    /\ UNCHANGED <<greek_data, english_data, current_date, usfm_lines, verse_idx,
                   english_chapter, output_file, verse_vars, ugnt_vars>>

\* f.write('\n'.join(usfm_lines))
WriteOutput ==
    /\ dpc = "chapters"
    /\ ~(chapter_idx < Len(greek_data))
    /\ output_file' = JoinLines(usfm_lines)
    /\ dpc' = "done"
    /\ UNCHANGED <<greek_data, english_data, current_date, usfm_lines, chapter_idx,
                   verse_idx, english_chapter, verse_vars, ugnt_vars>>

NextDoc ==
    \/ StartDocument
    \/ SkipChapter
    \/ EnterChapter
    \/ ProcessVerse
    \/ EndChapter
    \/ WriteOutput

SpecDoc == InitDoc /\ [][NextDoc]_vars

(***************************************************************************)
(* Vocabulary of the properties of process_aligned_verse.                  *)
(***************************************************************************)
\* The open-alignment markers and the wrapped-word markers of the input words.
OpenTags == {AlignTag(t) : t \in Tokens}

WrappedWords == {WrappedWord(WordTexts[p]) : p \in 1..Len(WordTexts)}

IsOpenTag(piece) == piece \in OpenTags

IsWrappedWord(piece) == piece \in WrappedWords

IsCloseTag(piece) == piece = CloseTag

IsMarkup(piece) == IsOpenTag(piece) \/ IsWrappedWord(piece) \/ IsCloseTag(piece)

\* The positions of result holding the pieces emitted for word w (0-based).
PiecesOf(w) == {n \in 1..Len(result) : emitted_for[n] = w}

OpensOf(w) == {n \in PiecesOf(w) : IsOpenTag(result[n])}

WrapsOf(w) == {n \in PiecesOf(w) : IsWrappedWord(result[n])}

ClosesOf(w) == {n \in PiecesOf(w) : IsCloseTag(result[n])}

\* The number of source tokens of word w (0-based); 0 when 'greekWords' is absent.
TokenCount(w) ==
    IF greek_words[w + 1].hasGreekWords THEN Len(greek_words[w + 1].greekWords) ELSE 0

\* Word w (0-based) is a continuation word: the word before it has its flag set.
IsContinuationWord(w) == w >= 1 /\ greek_words[w].nextWordIsInGroup

WordIndices == 0..(Len(greek_words) - 1)

\* The emission of word w is over: the cursor is past it, or stands on it with
\* its own markup complete.
MovedPast(w) ==
    \/ pc = "returned"
    \/ w < i
    \/ w = i /\ pc \in {"group", "scan"}
    \/ pc = "scan" /\ w < next_idx

(***************************************************************************)
(* C1 (as stated): in the returned line every word with N >= 1 source      *)
(* tokens has exactly N open-alignment markers, N close-alignment markers  *)
(* and one wrapped-word marker, whatever the continuation flags.           *)
(***************************************************************************)
C1_EveryAlignedWordIsTagged ==
    pc = "returned" =>
        \A w \in WordIndices :
            TokenCount(w) >= 1 =>
                /\ Cardinality(OpensOf(w)) = TokenCount(w)
                /\ Cardinality(ClosesOf(w)) = TokenCount(w)
                /\ Cardinality(WrapsOf(w)) = 1

(***************************************************************************)
(* C1 (amended): in the returned line every word with N >= 1 source tokens *)
(* that is not a continuation word (the first word, or a word whose        *)
(* predecessor has nextWordIsInGroup unset) has exactly N open-alignment   *)
(* markers, N close-alignment markers and one wrapped-word marker.         *)
(***************************************************************************)
C1_HeadAlignedWordIsTagged ==
    pc = "returned" =>
        \A w \in WordIndices :
            (TokenCount(w) >= 1 /\ ~IsContinuationWord(w)) =>
                /\ Cardinality(OpensOf(w)) = TokenCount(w)
                /\ Cardinality(ClosesOf(w)) = TokenCount(w)
                /\ Cardinality(WrapsOf(w)) = 1

\* A returned verse with a two-token word and a one-token word, both tagged,
\* and a continuation flag set somewhere in the verse.
C1_Witness ==
    /\ pc = "returned"
    /\ \E w \in WordIndices :
        /\ TokenCount(w) = 2 /\ ~IsContinuationWord(w)
        /\ Cardinality(OpensOf(w)) = 2 /\ Cardinality(ClosesOf(w)) = 2
        /\ Cardinality(WrapsOf(w)) = 1
    /\ \E w \in WordIndices :
        /\ TokenCount(w) = 1 /\ ~IsContinuationWord(w)
        /\ Cardinality(OpensOf(w)) = 1
    /\ \E w \in WordIndices : greek_words[w + 1].nextWordIsInGroup

(***************************************************************************)
(* C2: in every prefix of the emission the close-alignment markers never   *)
(* outnumber the open-alignment markers; whenever the cursor has moved on  *)
(* from a word the counts are equal, overall and for that word; and within *)
(* one word every open marker precedes the single wrapped-word marker,     *)
(* which precedes every close marker.                                      *)
(***************************************************************************)
OpensUpTo(n) == Cardinality({m \in 1..n : IsOpenTag(result[m])})

ClosesUpTo(n) == Cardinality({m \in 1..n : IsCloseTag(result[m])})

C2_TagsBalanced ==
    /\ \A n \in 1..Len(result) : ClosesUpTo(n) <= OpensUpTo(n)
    /\ pc \in {"loop", "group", "scan", "returned"} =>
           ClosesUpTo(Len(result)) = OpensUpTo(Len(result))
    /\ \A w \in WordIndices :
        /\ MovedPast(w) => Cardinality(ClosesOf(w)) = Cardinality(OpensOf(w))
        /\ Cardinality(WrapsOf(w)) <= 1
        /\ \A a \in OpensOf(w), b \in WrapsOf(w) : a < b
        /\ \A b \in WrapsOf(w), c \in ClosesOf(w) : b < c
        /\ ClosesOf(w) # {} => WrapsOf(w) # {}

\* The cursor has moved on from a word that opened and closed two tags.
C2_Witness ==
    /\ pc = "loop"
    /\ i >= 1
    /\ Cardinality(OpensOf(i - 1)) = 2
    /\ Cardinality(ClosesOf(i - 1)) = 2
    /\ i < Len(greek_words)

(***************************************************************************)
(* C3: every continuation word of a chain contributes exactly one piece,   *)
(* its surface text prefixed by one space, directly after the pieces of    *)
(* the word before it, and no alignment markup, whether or not it carries  *)
(* source tokens; the cursor of the outer loop only ever stands on a word  *)
(* that is not a continuation word, so no chain word is emitted twice.     *)
(***************************************************************************)
C3_ChainIsPlainText ==
    /\ \A w \in WordIndices :
        IsContinuationWord(w) =>
            /\ Cardinality(PiecesOf(w)) <= 1
            /\ MovedPast(w) => Cardinality(PiecesOf(w)) = 1
            /\ \A n \in PiecesOf(w) :
                /\ result[n] = Continuation(greek_words[w + 1].word)
                /\ ~IsMarkup(result[n])
                /\ n > 1 /\ emitted_for[n - 1] = w - 1
    /\ (i < Len(greek_words)) => ~IsContinuationWord(i)
    /\ pc = "returned" => i = Len(greek_words)

\* A returned verse with a chain whose continuation word carries source tokens
\* and is followed by a word outside the chain.
C3_Witness ==
    /\ pc = "returned"
    /\ Len(greek_words) = 3
    /\ greek_words[1].nextWordIsInGroup
    /\ ~greek_words[2].nextWordIsInGroup
    /\ TokenCount(1) = 2
    /\ PiecesOf(1) # {}
    /\ PiecesOf(2) # {}

(***************************************************************************)
(* C4: for the verse 'In', 'the', 'beginning' (one source token, strongs   *)
(* G07461), no continuation flag, verse number 1, the returned line is     *)
(* '\v 1 In the' followed by the open-alignment marker, the wrapped word   *)
(* 'beginning' and one close-alignment marker.                             *)
(***************************************************************************)
ScenarioWords ==
    <<[word |-> "In", hasGreekWords |-> TRUE, greekWords |-> <<>>,
       nextWordIsInGroup |-> FALSE],
      [word |-> "the", hasGreekWords |-> TRUE, greekWords |-> <<>>,
       nextWordIsInGroup |-> FALSE],
      [word |-> "beginning", hasGreekWords |-> TRUE, greekWords |-> <<TokenArche>>,
       nextWordIsInGroup |-> FALSE]>>

C4_ScenarioLine ==
    (pc = "returned" /\ greek_words = ScenarioWords /\ verse_num = 1) =>
        verse_text = "\\v 1 In the" \o AlignTag(TokenArche)
                     \o WrappedWord("beginning") \o CloseTag

(***************************************************************************)
(* C5: a word with zero source tokens ('greekWords' absent or empty) never *)
(* gets an open-alignment, wrapped-word or close-alignment marker; what is *)
(* emitted for it is its surface text alone (after the single space of a   *)
(* continuation word), at any position and for any continuation flags.     *)
(***************************************************************************)
C5_UnalignedWordIsLiteral ==
    \A w \in WordIndices :
        TokenCount(w) = 0 =>
            /\ \A n \in PiecesOf(w) :
                /\ ~IsMarkup(result[n])
                /\ result[n] = IF IsContinuationWord(w)
                               THEN Continuation(greek_words[w + 1].word)
                               ELSE greek_words[w + 1].word
            /\ MovedPast(w) => Cardinality(PiecesOf(w)) = 1

\* A returned verse with a word without the 'greekWords' key, a word with an
\* empty 'greekWords' list and an aligned word, one of the unaligned words
\* having its continuation flag set.
C5_Witness ==
    /\ pc = "returned"
    /\ \E w \in WordIndices : ~greek_words[w + 1].hasGreekWords /\ PiecesOf(w) # {}
    /\ \E w \in WordIndices :
        /\ greek_words[w + 1].hasGreekWords /\ TokenCount(w) = 0
        /\ greek_words[w + 1].nextWordIsInGroup
        /\ PiecesOf(w) # {}
    /\ \E w \in WordIndices : TokenCount(w) >= 1

(***************************************************************************)
(* Vocabulary of the properties of convert_json_to_usfm.                   *)
(***************************************************************************)
ChapterNumbers == 1..Len(greek_data)

\* The 0-based verse indices of primary chapter number c.
VerseIndices(c) == 0..(Len(greek_data[c]) - 1)

IsChapterMarker(line) == \E c \in 0..(MaxChapters + 2) : line = ChapterMarker(c)

\* The position of the marker of chapter c among the output lines.
MarkerPos(c) == CHOOSE n \in 1..Len(usfm_lines) : usfm_lines[n] = ChapterMarker(c)

\* The output lines between the marker of chapter c and the next chapter marker.
ChapterLines(c) ==
    LET last == IF \E n \in 1..Len(usfm_lines) : usfm_lines[n] = ChapterMarker(c + 1)
                THEN MarkerPos(c + 1) - 1
                ELSE Len(usfm_lines)
    IN SubSeq(usfm_lines, MarkerPos(c) + 1, last)

\* line is a '\v <n> ...' line the assembler can write for verse number n.
IsVerseLine(line, n) ==
    \/ \E shape \in VerseShapes : shape.hasWords /\ line = ProcessAlignedVerse(shape.words, n)
    \/ \E c \in 1..MaxChapters, m \in 0..(MaxVerses + 1) : line = FallbackLine(n, EnglishText(c, m))

Contains(lines, line) == \E n \in 1..Len(lines) : lines[n] = line

(***************************************************************************)
(* C6: when a primary chapter has no secondary chapter of the same number, *)
(* every verse of that chapter that has aligned words is still compiled    *)
(* and written to the output, inside that chapter.                         *)
(***************************************************************************)
C6_UnmatchedChapterStillCompiled ==
    dpc = "done" =>
        \A c \in ChapterNumbers :
            ~FindEnglishChapter(english_data, c).found =>
                \A v \in VerseIndices(c) :
                    (greek_data[c][v + 1].hasWords /\ greek_data[c][v + 1].words # <<>>) =>
                        Contains(ChapterLines(c),
                                 ProcessAlignedVerse(greek_data[c][v + 1].words, v + 1))

(***************************************************************************)
(* C7: for every primary verse with a registered section header or         *)
(* footnote, the header lines stand immediately before the verse's         *)
(* '\v <verse>' line, the footnote lines immediately after it, and the     *)
(* pair '\b', '\m' directly after those; a verse with neither annotation   *)
(* is not followed by a break pair.                                        *)
(***************************************************************************)
C7_AnnotationsAroundVerse ==
    dpc = "done" =>
        \A c \in ChapterNumbers : \A v \in VerseIndices(c) :
            LET lines == ChapterLines(c)
                headers == get_section_header(c, v + 1)
                footnotes == get_footnote(c, v + 1)
            IN IF headers # <<>> \/ footnotes # <<>>
               THEN \E n \in 1..Len(lines) :
                        /\ IsVerseLine(lines[n], v + 1)
                        /\ n > Len(headers)
                        /\ SubSeq(lines, n - Len(headers), n - 1) = headers
                        /\ n + Len(footnotes) + 2 <= Len(lines)
                        /\ SubSeq(lines, n + 1, n + Len(footnotes)) = footnotes
                        /\ lines[n + Len(footnotes) + 1] = "\\b"
                        /\ lines[n + Len(footnotes) + 2] = "\\m"
               ELSE \A n \in 1..Len(lines) :
                        IsVerseLine(lines[n], v + 1) =>
                            ~(n + 1 <= Len(lines) /\ lines[n + 1] = "\\b")

(***************************************************************************)
(* C8: whenever a primary verse has no aligned words ('words' absent or an *)
(* empty list) and the matching secondary chapter has a plain-text verse   *)
(* for it, the verse line written is '\v <n> ' followed by that secondary  *)
(* plain text.                                                             *)
(***************************************************************************)
C8_FallbackWithoutAlignedWords ==
    dpc = "done" =>
        \A c \in ChapterNumbers :
            LET english == FindEnglishChapter(english_data, c)
            IN english.found =>
                \A v \in VerseIndices(c) :
                    (/\ ~greek_data[c][v + 1].hasWords \/ greek_data[c][v + 1].words = <<>>
                     /\ v < Len(english.verses)
                     /\ english.verses[v + 1].number = v + 1) =>
                        Contains(ChapterLines(c),
                                 FallbackLine(v + 1, english.verses[v + 1].text))

(***************************************************************************)
(* C9: when the plain-text fallback is used for verse number v of chapter  *)
(* number c, the text written is that of the secondary verse whose         *)
(* 'number' field equals v in the secondary chapter whose 'number' field   *)
(* equals c, also when that chapter's verse list starts with a verse 0.    *)
(***************************************************************************)
C9_FallbackByVerseNumber ==
    dpc = "done" =>
        \A c \in ChapterNumbers :
            LET english == FindEnglishChapter(english_data, c)
            IN english.found =>
                \A v \in VerseIndices(c) :
                    (~greek_data[c][v + 1].hasWords /\ v < Len(english.verses)) =>
                        \E p \in 1..Len(english.verses) :
                            /\ english.verses[p].number = v + 1
                            /\ Contains(ChapterLines(c),
                                        FallbackLine(v + 1, english.verses[p].text))

(***************************************************************************)
(* C10: the chapter markers written so far are '\c 1', '\c 2', ... in      *)
(* ascending order, one per primary chapter the loop has reached; in the   *)
(* finished document their number is the number of primary chapters,       *)
(* whatever chapters the secondary collection lacks.                       *)
(***************************************************************************)
ChaptersReached == IF dpc = "verses" THEN chapter_idx + 1 ELSE chapter_idx

C10_ChapterMarkersAscending ==
    /\ SelectSeq(usfm_lines, IsChapterMarker) = [c \in 1..ChaptersReached |-> ChapterMarker(c)]
    /\ dpc = "done" => ChaptersReached = Len(greek_data)

\* A finished document of two chapters, the first of which the secondary
\* collection lacks.
C10_Witness ==
    /\ dpc = "done"
    /\ Len(greek_data) = 2
    /\ ~FindEnglishChapter(english_data, 1).found
    /\ FindEnglishChapter(english_data, 2).found
    /\ SelectSeq(usfm_lines, IsChapterMarker) = <<"\\c 1", "\\c 2">>

(***************************************************************************)
(* C14: the emission loop of process_aligned_verse terminates: each time   *)
(* control comes back to the loop test the cursor is strictly larger, it   *)
(* never exceeds the length of the word sequence and no word is read past  *)
(* the end, also when the last word of the sequence has its continuation   *)
(* flag set; the function eventually returns, and then every word index    *)
(* has been visited exactly once, as a chain head (its own markup) or as a *)
(* continuation word (one space-prefixed piece).                           *)
(***************************************************************************)
\* The pieces emitted for word w, in order of emission.
PieceSeq(w) ==
    IF PiecesOf(w) = {} THEN <<>>
    ELSE LET first == CHOOSE n \in PiecesOf(w) : \A m \in PiecesOf(w) : n <= m
             last == CHOOSE n \in PiecesOf(w) : \A m \in PiecesOf(w) : m <= n
         IN IF last - first + 1 = Cardinality(PiecesOf(w))
            THEN SubSeq(result, first, last)
            ELSE <<"scattered">>

\* Word w was visited once, as a chain head or as a continuation word.
VisitedOnce(w) ==
    IF IsContinuationWord(w)
    THEN PieceSeq(w) = <<Continuation(greek_words[w + 1].word)>>
    ELSE PieceSeq(w) = WordMarkup(greek_words[w + 1])

C14_CursorInRange ==
    /\ i >= 0 /\ i <= Len(greek_words)
    /\ pc \in {"open", "close", "group", "scan"} => i < Len(greek_words)
    /\ pc = "scan" => (next_idx > i /\ next_idx <= Len(greek_words))
    /\ pc = "returned" =>
          /\ i = Len(greek_words)
          /\ \A w \in WordIndices : VisitedOnce(w)
          /\ Len(result) = 1 + Cardinality(UNION {PiecesOf(w) : w \in WordIndices})

C14_CursorAdvances ==
    /\ i' >= i
    /\ (pc # "loop" /\ pc' = "loop") => i' > i
    /\ (pc = "group" /\ pc' = "loop") => i' = i + 1
    /\ (pc = "scan" /\ pc' = "loop") => i' = next_idx

C14_LoopTerminates ==
    /\ []C14_CursorInRange
    /\ [][C14_CursorAdvances]_vars
    /\ <>(pc = "returned")

\* A returned verse that ends inside a continuation chain: the last word
\* still has its flag set, and the chain has a continuation word.
C14_Witness ==
    /\ pc = "returned"
    /\ Len(greek_words) = MaxWords
    /\ greek_words[Len(greek_words)].nextWordIsInGroup
    /\ greek_words[Len(greek_words) - 1].nextWordIsInGroup
    /\ i = Len(greek_words)
    /\ \A w \in WordIndices : VisitedOnce(w)

(***************************************************************************)
(* load_greek_mapping of src/convert_to_usfm_with_ugnt.py, row by row.     *)
(*                                                                         *)
(* A CSV row has the columns 'SBLGNT:Greek', 'UGNT:Greek' and 'Greek'; a   *)
(* column that is absent or empty reads as the empty string, which is what *)
(* row.get(column, '') or ... treats alike.                                *)
(***************************************************************************)
MaxRows == 2

\* The values of a CSV cell.
GreekForms == {"", "logos", "theos"}

CsvRows == [sblgnt : GreekForms, ugnt : GreekForms, greek : GreekForms]

RECURSIVE CsvFilesOfLen(_)
CsvFilesOfLen(n) ==
    IF n = 0 THEN {<<>>}
    ELSE {Append(f, row) : f \in CsvFilesOfLen(n - 1), row \in CsvRows}

CsvFiles == UNION {CsvFilesOfLen(n) : n \in 0..MaxRows}

\* Mutant of PyOr: no fallback to the second operand.
PyOrFirst(a, b) == a

\* a or b, on strings
PyOr(a, b) == IF a # "" THEN a ELSE b

\* sblgnt = row.get('SBLGNT:Greek', '') or row.get('Greek', '')
RowKey(row) == PyOr(row.sblgnt, row.greek)

\* ugnt = row.get('UGNT:Greek', '') or row.get('Greek', '')
RowValue(row) == PyOr(row.ugnt, row.greek)

\* mapping[key] = value
DictSet(dict, key, value) ==
    [x \in (DOMAIN dict) \cup {key} |-> IF x = key THEN value ELSE dict[x]]

\* greek_mapping.get(word, word)
Lookup(dict, word) == IF word \in DOMAIN dict THEN dict[word] ELSE word

InitMap ==
    /\ csv_rows \in CsvFiles
    /\ row_idx = 0
    /\ mapping = <<>>
    /\ map_warning = FALSE
    /\ mpc = "rows"
    /\ GenIdle
    /\ greek_words = <<>>
    /\ verse_num = 0
    /\ result = <<>>
    /\ emitted_for = <<>>
    /\ i = 0
    /\ k = 0
    /\ next_idx = 0
    /\ pc = "idle"
    /\ verse_text = ""
    /\ greek_data = <<>>
    /\ english_data = <<>>
    /\ current_date = ""
    /\ usfm_lines = <<>>
    /\ chapter_idx = 0
    /\ verse_idx = 0
    /\ english_chapter = NoChapter
    /\ output_file = ""
    /\ dpc = "idle"

\* if sblgnt: mapping[sblgnt] = ugnt
StoreRow ==
    /\ mpc = "rows"
    /\ row_idx < Len(csv_rows)
    /\ RowKey(csv_rows[row_idx + 1]) # ""
    /\ mapping' = DictSet(mapping, RowKey(csv_rows[row_idx + 1]),
                          RowValue(csv_rows[row_idx + 1]))
    /\ row_idx' = row_idx + 1
    /\ UNCHANGED <<csv_rows, map_warning, mpc, gen_vars, verse_vars, doc_vars>>

\* sblgnt is empty: the row adds nothing
DropRow ==
    /\ mpc = "rows"
    /\ row_idx < Len(csv_rows)
    /\ RowKey(csv_rows[row_idx + 1]) = ""
    /\ row_idx' = row_idx + 1
    /\ UNCHANGED <<csv_rows, mapping, map_warning, mpc, gen_vars, verse_vars, doc_vars>>

\* if not mapping: print("Warning: No Greek mappings found ..."); return mapping
WarnNoMappings ==
    /\ mpc = "rows"
    /\ ~(row_idx < Len(csv_rows))
    /\ DOMAIN mapping = {}
    /\ map_warning' = TRUE
    /\ mpc' = "done"
    /\ UNCHANGED <<csv_rows, row_idx, mapping, gen_vars, verse_vars, doc_vars>>

\* return mapping
ReturnMapping ==
    /\ mpc = "rows"
    /\ ~(row_idx < Len(csv_rows))
    /\ DOMAIN mapping # {}
    /\ mpc' = "done"
    /\ UNCHANGED <<csv_rows, row_idx, mapping, map_warning, gen_vars, verse_vars, doc_vars>>

NextMap ==
    \/ StoreRow
    \/ DropRow
    \/ WarnNoMappings
    \/ ReturnMapping

SpecMap == InitMap /\ [][NextMap]_vars

(***************************************************************************)
(* Vocabulary of the properties of load_greek_mapping.                     *)
(***************************************************************************)
RowNumbers == 1..Len(csv_rows)

\* The row lacks the primary-script or the target-script column.
IsIncomplete(row) == row.sblgnt = "" \/ row.ugnt = ""

\* The key and the value the row is documented to contribute ("If either
\* column is empty, use the Greek column value").
DocumentedKey(row) == IF row.sblgnt = "" THEN row.greek ELSE row.sblgnt

DocumentedValue(row) == IF row.ugnt = "" THEN row.greek ELSE row.ugnt

\* No row after row r has the same key.
IsLastWithKey(r) ==
    \A q \in RowNumbers : q > r => DocumentedKey(csv_rows[q]) # DocumentedKey(csv_rows[r])

(***************************************************************************)
(* C11 (as stated): for every row in which the SBLGNT:Greek or the         *)
(* UGNT:Greek column is empty or absent, the returned map holds the        *)
(* identity mapping of the row's 'Greek' value, so that a lookup of that   *)
(* value returns it unchanged.                                             *)
(***************************************************************************)
C11_IncompleteRowIsIdentity ==
    mpc = "done" =>
        \A r \in RowNumbers :
            (IsIncomplete(csv_rows[r]) /\ csv_rows[r].greek # "") =>
                /\ csv_rows[r].greek \in DOMAIN mapping
                /\ Lookup(mapping, csv_rows[r].greek) = csv_rows[r].greek

(***************************************************************************)
(* C11 (amended): for every row in which the SBLGNT:Greek or UGNT:Greek    *)
(* column is empty or absent, the row's 'Greek' value stands in for the    *)
(* empty column: unless its key (SBLGNT:Greek, or else Greek) is empty the *)
(* row is not dropped, the map holds that key and, when no later row has   *)
(* the same key, sends it to the row's UGNT:Greek, or else Greek.  The     *)
(* entry is the identity Greek -> Greek when both columns are empty.  The  *)
(* empty string is never a key.                                            *)
(***************************************************************************)
C11_IncompleteRowFilledFromGreek ==
    /\ "" \notin DOMAIN mapping
    /\ mpc = "done" =>
        \A r \in RowNumbers :
            (IsIncomplete(csv_rows[r]) /\ DocumentedKey(csv_rows[r]) # "") =>
                /\ DocumentedKey(csv_rows[r]) \in DOMAIN mapping
                /\ IsLastWithKey(r) =>
                      /\ mapping[DocumentedKey(csv_rows[r])] = DocumentedValue(csv_rows[r])
                      /\ (csv_rows[r].sblgnt = "" /\ csv_rows[r].ugnt = "") =>
                            Lookup(mapping, csv_rows[r].greek) = csv_rows[r].greek

\* A returned map built from a row without the SBLGNT column (its Greek value
\* is mapped to a different UGNT form) and a row with neither column (its
\* Greek value is mapped to itself).
C11_Witness ==
    /\ mpc = "done"
    /\ Len(csv_rows) = 2
    /\ csv_rows[1] = [sblgnt |-> "", ugnt |-> "theos", greek |-> "logos"]
    /\ csv_rows[2] = [sblgnt |-> "", ugnt |-> "", greek |-> "theos"]
    /\ mapping["logos"] = "theos"
    /\ mapping["theos"] = "theos"

(***************************************************************************)
(* generate_usfm of src/convert_to_usfm_with_ugnt.py.                      *)
(*                                                                         *)
(* A text is kept as the list of its atoms: a whitespace atom " " or a     *)
(* run of characters without whitespace; the backslash is an atom of its   *)
(* own.  The empty string is the empty list.                               *)
(***************************************************************************)
MaxGenVerses == 2

\* The keys of a verse record, in the order of the if / elif chain.
RepresentationKeys == <<"alignments", "greek", "tokens", "text">>

\* Values that yield text.
FullAlignments ==
    <<[hasSourceNgram |-> TRUE, sourceNgram |-> <<[text |-> <<"logos">>], [text |-> <<"theos">>]>>],
      [hasSourceNgram |-> FALSE, sourceNgram |-> <<>>],
      [hasSourceNgram |-> TRUE, sourceNgram |-> <<[text |-> <<"en">>]>>]>>

FullGreek == <<"en", " ", "arche">>

FullTokens == <<[text |-> <<"ho">>], [text |-> <<>>], [text |-> <<"logos">>]>>

FullText == <<" ", "In", " ", "the", " ", "\\", "beginning">>

\* Values that are present and yield only whitespace.
BlankAlignments ==
    <<[hasSourceNgram |-> FALSE, sourceNgram |-> <<>>],
      [hasSourceNgram |-> TRUE, sourceNgram |-> <<[text |-> <<>>], [text |-> <<" ">>]>>]>>

BlankGreek == <<" ">>

BlankTokens == <<[text |-> <<>>]>>

BlankText == <<>>

FullValue == [alignments |-> FullAlignments, greek |-> FullGreek,
              tokens |-> FullTokens, text |-> FullText]

BlankValue == [alignments |-> BlankAlignments, greek |-> BlankGreek,
               tokens |-> BlankTokens, text |-> BlankText]

\* A verse record, kept as the set of keys it has and the set of keys whose
\* value yields no text.
VerseRecord(present, blank) == [present |-> present, blank |-> blank]

\* 'key' in verse
HasKey(verse, key) == key \in verse.present

\* verse[key]
Value(verse, key) == IF key \in verse.blank THEN BlankValue[key] ELSE FullValue[key]

\* The verse records: no key; one key, yielding text or none; two keys and
\* all four keys, yielding text; 'alignments' yielding none beside 'text';
\* all four keys, none yielding text.
GenVerseShapes ==
    {VerseRecord({}, {})}
    \cup {VerseRecord({key}, {}) : key \in {"alignments", "greek", "tokens", "text"}}
    \cup {VerseRecord({key}, {key}) : key \in {"alignments", "greek", "tokens", "text"}}
    \cup {VerseRecord({"greek", "tokens"}, {}),
          VerseRecord({"tokens", "text"}, {}),
          VerseRecord({"alignments", "greek", "tokens", "text"}, {}),
          VerseRecord({"alignments", "text"}, {"alignments"}),
          VerseRecord({"alignments", "greek", "tokens", "text"},
                      {"alignments", "greek", "tokens", "text"})}

\* The documents of n chapters holding at most budget verses in all.
RECURSIVE GenDocsOf(_, _)
GenDocsOf(n, budget) ==
    IF n = 0 THEN {<<>>}
    ELSE UNION {{<<chapter>> \o rest :
                    chapter \in {t \in SeqsUpTo(GenVerseShapes, len) : Len(t) = len},
                    rest \in GenDocsOf(n - 1, budget - len)} :
                len \in 0..budget}

\* Chapters and verses carry their 'number': their position, from 1.
Numbered(doc) ==
    [c \in 1..Len(doc) |->
        [number |-> c,
         verses |-> [v \in 1..Len(doc[c]) |-> [number |-> v, record |-> doc[c][v]]]]]

\* The documents of at most two chapters holding at most budget verses.
GenDocs(budget) == {Numbered(doc) : doc \in UNION {GenDocsOf(n, budget) : n \in {0, 1, 2}}}

(***************************************************************************)
(* String operations of generate_usfm.                                     *)
(***************************************************************************)
\* Mutant of Strip: no whitespace is removed.
StripNothing(text) == text

\* text.strip()
RECURSIVE Strip(_)
Strip(text) ==
    IF text = <<>> THEN <<>>
    ELSE IF Head(text) = " " THEN Strip(Tail(text))
    ELSE IF text[Len(text)] = " " THEN Strip(SubSeq(text, 1, Len(text) - 1))
    ELSE text

\* " ".join(texts)
RECURSIVE JoinSpace(_)
JoinSpace(texts) ==
    IF texts = <<>> THEN <<>>
    ELSE IF Len(texts) = 1 THEN texts[1]
    ELSE texts[1] \o <<" ">> \o JoinSpace(Tail(texts))

\* usfm_escape: text.replace('\\', '\\\\')
RECURSIVE usfm_escape(_)
usfm_escape(text) ==
    IF text = <<>> THEN <<>>
    ELSE (IF Head(text) = "\\" THEN <<"\\", "\\">> ELSE <<Head(text)>>)
         \o usfm_escape(Tail(text))

\* " ".join([token.get('text', '') for token in source_tokens])
SourceText(alignment) ==
    JoinSpace([t \in 1..Len(alignment.sourceNgram) |-> alignment.sourceNgram[t].text])

\* Method 1: the loop over verse['alignments']
RECURSIVE AlignmentsText(_)
AlignmentsText(alignments) ==
    IF alignments = <<>> THEN <<>>
    ELSE (IF Strip(SourceText(Head(alignments))) # <<>>
          THEN SourceText(Head(alignments)) \o <<" ">>
          ELSE <<>>)
         \o AlignmentsText(Tail(alignments))

\* Method 3: the loop over verse['tokens']
RECURSIVE TokensText(_)
TokensText(tokens) ==
    IF tokens = <<>> THEN <<>>
    ELSE Head(tokens).text \o <<" ">> \o TokensText(Tail(tokens))

\* Mutant of BuildVerseText: `if` in place of `elif`, every present
\* representation is appended.
BuildVerseTextMerged(verse) ==
    (IF HasKey(verse, "alignments") THEN AlignmentsText(Value(verse, "alignments")) ELSE <<>>)
    \o (IF HasKey(verse, "greek") THEN Value(verse, "greek") \o <<" ">> ELSE <<>>)
    \o (IF HasKey(verse, "tokens") THEN TokensText(Value(verse, "tokens")) ELSE <<>>)
    \o (IF HasKey(verse, "text") THEN Value(verse, "text") \o <<" ">> ELSE <<>>)

\* verse_text after the if / elif chain
BuildVerseText(verse) ==
    IF HasKey(verse, "alignments") THEN AlignmentsText(Value(verse, "alignments"))
    ELSE IF HasKey(verse, "greek") THEN Value(verse, "greek") \o <<" ">>
    ELSE IF HasKey(verse, "tokens") THEN TokensText(Value(verse, "tokens"))
    ELSE IF HasKey(verse, "text") THEN Value(verse, "text") \o <<" ">>
    ELSE <<>>

Sentinel == <<"[No", " ", "Greek", " ", "text", " ", "found]">>

\* f"\\v {verse_num} {usfm_escape(verse_text.strip())}"
GenVerseLine(n, text) == "\\v " \o ToString(n) \o " " \o Join(usfm_escape(Strip(text)))

GenHeader ==
    <<"\\id ACT Unlocked Greek New Testament",
      "\\ide UTF-8",
      "\\h Acts",
      "\\toc1 The Acts of the Apostles",
      "\\toc2 Acts",
      "\\toc3 Act",
      "\\mt1 Acts">>

(***************************************************************************)
(* generate_usfm, one loop iteration at a time.                            *)
(***************************************************************************)
InitGen ==
    /\ data \in GenDocs(MaxGenVerses)
    /\ gen_lines = GenHeader
    /\ gen_chapter = 0
    /\ gen_verse = 0
    /\ warnings = <<>>
    /\ usfm_content = ""
    /\ gpc = "chapters"
    /\ MapIdle
    /\ greek_words = <<>>
    /\ verse_num = 0
    /\ result = <<>>
    /\ emitted_for = <<>>
    /\ i = 0
    /\ k = 0
    /\ next_idx = 0
    /\ pc = "idle"
    /\ verse_text = ""
    /\ greek_data = <<>>
    /\ english_data = <<>>
    /\ current_date = ""
    /\ usfm_lines = <<>>
    /\ chapter_idx = 0
    /\ verse_idx = 0
    /\ english_chapter = NoChapter
    /\ output_file = ""
    /\ dpc = "idle"

\* The verse the verse loop stands on.
CurrentVerse == data[gen_chapter + 1].verses[gen_verse + 1]

\* usfm_lines.append(f"\\c {chapter_num}")
GenBeginChapter ==
    /\ gpc = "chapters"
    /\ gen_chapter < Len(data)
    /\ gen_lines' = Append(gen_lines, "\\c " \o ToString(data[gen_chapter + 1].number))
    /\ gen_verse' = 0
    /\ gpc' = "verses"
    /\ UNCHANGED <<data, gen_chapter, warnings, usfm_content, map_vars, verse_vars, doc_vars>>

\* A verse whose verse_text.strip() is not empty.
GenVerseWithText ==
    /\ gpc = "verses"
    /\ gen_verse < Len(data[gen_chapter + 1].verses)
    /\ Strip(BuildVerseText(CurrentVerse.record)) # <<>>
    /\ gen_lines' = Append(gen_lines,
                           GenVerseLine(CurrentVerse.number, BuildVerseText(CurrentVerse.record)))
    /\ gen_verse' = gen_verse + 1
    /\ UNCHANGED <<data, gen_chapter, warnings, usfm_content, gpc, map_vars, verse_vars, doc_vars>>

\* if not verse_text.strip(): print warning; verse_text = "[No Greek text found]"
GenVerseMissing ==
    /\ gpc = "verses"
    /\ gen_verse < Len(data[gen_chapter + 1].verses)
    /\ Strip(BuildVerseText(CurrentVerse.record)) = <<>>
    /\ warnings' = Append(warnings, <<data[gen_chapter + 1].number, CurrentVerse.number>>)
    /\ gen_lines' = Append(gen_lines, GenVerseLine(CurrentVerse.number, Sentinel))
    /\ gen_verse' = gen_verse + 1
    /\ UNCHANGED <<data, gen_chapter, usfm_content, gpc, map_vars, verse_vars, doc_vars>>

\* The verse loop is exhausted: next chapter.
GenEndChapter ==
    /\ gpc = "verses"
    /\ ~(gen_verse < Len(data[gen_chapter + 1].verses))
    /\ gen_chapter' = gen_chapter + 1
    /\ gpc' = "chapters"
    /\ UNCHANGED <<data, gen_lines, gen_verse, warnings, usfm_content, map_vars, verse_vars,
                   doc_vars>>

\* return "\n".join(usfm_lines)
GenReturn ==
    /\ gpc = "chapters"
    /\ ~(gen_chapter < Len(data))
    /\ usfm_content' = JoinLines(gen_lines)
    /\ gpc' = "done"
    /\ UNCHANGED <<data, gen_lines, gen_chapter, gen_verse, warnings, map_vars, verse_vars,
                   doc_vars>>

NextGen ==
    \/ GenBeginChapter
    \/ GenVerseWithText
    \/ GenVerseMissing
    \/ GenEndChapter
    \/ GenReturn

SpecGen == InitGen /\ [][NextGen]_vars

(***************************************************************************)
(* Vocabulary for the statements about generate_usfm.                      *)
(***************************************************************************)
\* The verses, as <<chapter position, verse position>>, whose line is written.
GenProcessed ==
    {cv \in UNION {{<<c, v>> : v \in 1..Len(data[c].verses)} : c \in 1..Len(data)} :
        \/ cv[1] - 1 < gen_chapter
        \/ cv[1] - 1 = gen_chapter /\ gpc = "verses" /\ cv[2] - 1 < gen_verse}

\* The chapters whose marker is written.
GenBegun ==
    {c \in 1..Len(data) : c - 1 < gen_chapter \/ (c - 1 = gen_chapter /\ gpc = "verses")}

\* The number of lines the chapters before chapter c take.
RECURSIVE GenLinesBefore(_)
GenLinesBefore(c) ==
    IF c = 1 THEN 0 ELSE GenLinesBefore(c - 1) + 1 + Len(data[c - 1].verses)

\* The line of verse v of chapter c in the output.
GenLineOf(c, v) == gen_lines[Len(GenHeader) + GenLinesBefore(c) + 1 + v]

GenRecord(c, v) == data[c].verses[v].record

\* The key is present and its value holds text other than whitespace.
Yields(record, key) == HasKey(record, key) /\ Value(record, key) = FullValue[key]

\* What each value that holds text reads as on a verse line.
RenderedText == [alignments |-> "logos theos en",
                 greek |-> "en arche",
                 tokens |-> "ho  logos",
                 text |-> "In the \\\\beginning"]

SentinelBody == "[No Greek text found]"

\* The verse line whose body is taken from the one representation key.
LineFrom(c, v, key) ==
    "\\v " \o ToString(data[c].verses[v].number) \o " "
    \o (IF Yields(GenRecord(c, v), key) THEN RenderedText[key] ELSE SentinelBody)

SentinelLine(c, v) == "\\v " \o ToString(data[c].verses[v].number) \o " " \o SentinelBody

\* The first key of order that the record has, "none" when it has none.
FirstPresent(order, record) ==
    IF \A p \in 1..Len(order) : ~HasKey(record, order[p]) THEN "none"
    ELSE order[CHOOSE p \in 1..Len(order) :
                  /\ HasKey(record, order[p])
                  /\ \A q \in 1..(p - 1) : ~HasKey(record, order[q])]

\* C12 as stated: each verse line is built from exactly one representation,
\* the first the record provides in the order alignment entries, flat token
\* list, plain-text field (either of 'greek' and 'text'); a lower-priority one
\* is used whenever no higher-priority one is provided.
C12_OneRepresentationAsStated ==
    \A cv \in GenProcessed :
        LET record == GenRecord(cv[1], cv[2])
            line == GenLineOf(cv[1], cv[2])
        IN  IF HasKey(record, "alignments") THEN line = LineFrom(cv[1], cv[2], "alignments")
            ELSE IF HasKey(record, "tokens") THEN line = LineFrom(cv[1], cv[2], "tokens")
            ELSE IF HasKey(record, "greek") \/ HasKey(record, "text")
                 THEN \E key \in {"greek", "text"} :
                        HasKey(record, key) /\ line = LineFrom(cv[1], cv[2], key)
            ELSE line = SentinelLine(cv[1], cv[2])

\* C12 amended: each verse line is built from exactly one representation, the
\* first whose key the record has in the order 'alignments', 'greek',
\* 'tokens', 'text'; text of two representations is never merged, and a
\* lower-priority one is used exactly when no higher-priority key is present.
C12_OneRepresentationByKeyOrder ==
    \A cv \in GenProcessed :
        LET record == GenRecord(cv[1], cv[2])
            key == FirstPresent(<<"alignments", "greek", "tokens", "text">>, record)
        IN  /\ key = "none" => GenLineOf(cv[1], cv[2]) = SentinelLine(cv[1], cv[2])
            /\ key # "none" => GenLineOf(cv[1], cv[2]) = LineFrom(cv[1], cv[2], key)

\* A verse with 'greek' and 'tokens' took 'greek'; a later verse with 'text'
\* alone took 'text'.
C12_Witness ==
    /\ gpc = "done"
    /\ Len(data) = 2
    /\ Len(data[1].verses) = 1
    /\ Len(data[2].verses) = 1
    /\ GenRecord(1, 1) = VerseRecord({"greek", "tokens"}, {})
    /\ GenLineOf(1, 1) = "\\v 1 en arche"
    /\ GenRecord(2, 1) = VerseRecord({"text"}, {})
    /\ GenLineOf(2, 1) = "\\v 1 In the \\\\beginning"

\* The warning printed for verse v of chapter c.
WarningFor(c, v) == <<data[c].number, data[c].verses[v].number>>

====
